---- MODULE Spec2Model ----
(***************************************************************************)
(* Model of the reading-challenge command line tool (src/main.py).         *)
(*                                                                         *)
(* The tool has three commands that share two documents:                   *)
(*   - the catalog  reading-challenge.yaml  (books_data["books"]),         *)
(*   - the personal log  personal/*.yaml    (user_data["read|watched"]).   *)
(* check validates the log against the catalog, update_movies merges an    *)
(* IMDb CSV export into the log, statistics classifies the log entries.    *)
(*                                                                         *)
(* A catalog book is [slug, has_movies, movies]; has_movies says whether   *)
(* the "movies" key is present, movies is the list of adaptations          *)
(* [year, title, imdb].  A log entry is [book, has_movies, movies] with    *)
(* movies a mapping year -> BOOLEAN.  The CSV export is [has_const, rows]: *)
(* has_const says whether the header holds the column "Const", rows is the *)
(* sequence of the data rows' Const values.                                *)
(***************************************************************************)
EXTENDS Integers, Sequences, FiniteSets, TLC

\* ------------------------------------------------------------------ bounds

\* Largest number of entries of the personal log check and statistics start from.
MaxLogEntries == 2
\* Largest number of data rows of a CSV export.
MaxRows == 2

\* Value universes of the documents.
CatalogSlugs == {"dune", "emma"}
LogSlugs == CatalogSlugs \cup {"unknown-book"}
Years == {1984, 2021}
TtKeyList == <<"tt0087182", "tt1160419">>
TtKeys == {TtKeyList[i] : i \in DOMAIN TtKeyList}
Title(slug) == IF slug = "dune" THEN "Dune" ELSE "Emma"

\* ------------------------------------------------------------- generic helpers

\* The sequences over S of length at most n.
SeqsUpTo(S, n) == UNION {[1..k -> S] : k \in 0..n}

\* The sequences that list every element of the finite set S exactly once.
Orderings(S) ==
    {q \in [1..Cardinality(S) -> S] : \A i, j \in 1..Cardinality(S) : q[i] = q[j] => i = j}

\* The mapping f with key k set to v (a dict assignment d[k] = v).
SetKey(f, k, v) == [x \in (DOMAIN f) \cup {k} |-> IF x = k THEN v ELSE f[x]]

\* The partial mappings from D to R.
PartialMaps(D, R) == UNION {[S -> R] : S \in SUBSET D}

\* ------------------------------------------------------------- the documents

VARIABLES
    books,            \* reading-challenge.yaml: books_data["books"]
    personal,         \* the personal YAML on disk: user_data["read|watched"]
    csv,              \* the CSV export the last update_movies run read
    cmd,              \* the last command run: "none" before the first
    exit_code,        \* its exit code
    invalid_slugs,    \* check: the local invalid_slugs
    invalid_movies,   \* check: the local invalid_movies, as [slug, years] groups
    printed,          \* the outcome message of the last command
    log_loaded,       \* update_movies: the personal YAML was loaded (line 201)
    changes_made,     \* update_movies: the local changes_made
    marked,           \* update_movies: the (slug, year) pairs printed as newly marked
    written,          \* update_movies: the personal YAML was written back (line 247)
    rerun,            \* history: this update_movies run read the same export as the
                      \* run just before it, and that run had changed the log
    stats             \* statistics: the counters put into the diagram

vars == <<books, personal, csv, cmd, exit_code, invalid_slugs, invalid_movies,
          printed, log_loaded, changes_made, marked, written, rerun, stats>>

\* The adaptation lists of one book with tt keys from keys: distinct years (the
\* catalog's invariant), in any order.
MovieLists(slug, keys) ==
    {ms \in SeqsUpTo([year : Years, title : {Title(slug)}, imdb : keys], Cardinality(Years)) :
        \A i, j \in DOMAIN ms : ms[i].year = ms[j].year => i = j}

\* The catalog entries of one slug: without the "movies" key, or with a list.
BooksOf(slug, keys) ==
    {[slug |-> slug, has_movies |-> FALSE, movies |-> <<>>]}
    \cup {[slug |-> slug, has_movies |-> TRUE, movies |-> ms] : ms \in MovieLists(slug, keys)}

\* The catalogs with tt keys from keys: any books in any order, slugs unique
\* (the catalog's invariant).
Catalogs(keys) ==
    UNION {{c \in [1..n -> UNION {BooksOf(s, keys) : s \in CatalogSlugs}] :
               \A i, j \in 1..n : c[i].slug = c[j].slug => i = j} :
           n \in 0..Cardinality(CatalogSlugs)}

\* The entries of a personal log: without the "movies" key, or with a mapping.
LogEntries ==
    {[book |-> b, has_movies |-> FALSE, movies |-> <<>>] : b \in BOOLEAN}
    \cup {[book |-> b, has_movies |-> TRUE, movies |-> m] :
            b \in BOOLEAN, m \in PartialMaps(Years, BOOLEAN)}

\* The personal logs of at most n entries, with slugs from slugs.
Logs(slugs, n) ==
    UNION {[S -> LogEntries] : S \in {T \in SUBSET slugs : Cardinality(T) <= n}}

\* The personal logs update_movies starts from: empty, or any one entry of the
\* slug "dune" (which the catalog may hold or lack; the catalogs are drawn alike
\* for every slug, so the entry's slug need not vary).  The runs themselves add
\* the further entries.
MergeLogs == {<<>>} \cup [{"dune"} -> LogEntries]

\* The rows' Const values of a CSV export with the column "Const": any values,
\* repeated or not, listed in the order of TtKeyList.  The order of the rows is
\* not drawn: the code only adds each row's value to the set watched_tt_keys
\* (line 161), and the order in which that set is iterated is drawn on its own.
ConstRows ==
    {[i \in DOMAIN ix |-> TtKeyList[ix[i]]] :
        ix \in {q \in SeqsUpTo(DOMAIN TtKeyList, MaxRows) :
                    \A i \in 1..(Len(q) - 1) : q[i] <= q[i + 1]}}

\* The CSV exports: a header with or without "Const", and one value per data row:
\* the row's Const value, or NoConst when the header has no such column.
NoConst == "-"

Exports ==
    {[has_const |-> TRUE, rows |-> r] : r \in ConstRows}
    \cup {[has_const |-> FALSE, rows |-> r] : r \in SeqsUpTo({NoConst}, MaxRows)}

NoStats == [total_books |-> 0, books_read |-> 0, books_not_read |-> 0,
            read_all_movies_watched |-> 0, read_some_movies_watched |-> 0,
            read_no_movies_watched |-> 0, not_read_movies_watched |-> 0,
            neither |-> 0, movies_watched_count |-> 0]

NoExport == [has_const |-> TRUE, rows |-> <<>>]

\* Before the first command: nothing read, nothing reported.
NothingRun ==
    /\ csv = NoExport
    /\ cmd = "none"
    /\ exit_code = 0
    /\ invalid_slugs = {}
    /\ invalid_movies = {}
    /\ printed = "none"
    /\ log_loaded = FALSE
    /\ changes_made = 0
    /\ marked = {}
    /\ written = FALSE
    /\ rerun = FALSE
    /\ stats = NoStats

\* check and statistics never read a movie's imdb key: one key is enough.
InitCheck ==
    /\ books \in Catalogs({"tt0087182"})
    /\ personal \in Logs(LogSlugs, MaxLogEntries)
    /\ NothingRun

InitStatistics == InitCheck

\* update_movies matches on the imdb keys: every assignment of them is drawn.
InitUpdate ==
    /\ books \in Catalogs(TtKeys)
    /\ personal \in MergeLogs
    /\ NothingRun

\* ------------------------------------------------------------------- check

\* valid_slugs = {book["slug"] for book in books_data["books"]}
valid_slugs(bks) == {bks[i].slug : i \in DOMAIN bks}

\* next((b for b in books if b["slug"] == slug), None): the index of the first
\* book with that slug, 0 for None.
book_entry(bks, slug) ==
    IF \E i \in DOMAIN bks : bks[i].slug = slug
    THEN CHOOSE i \in DOMAIN bks :
            /\ bks[i].slug = slug
            /\ \A j \in DOMAIN bks : bks[j].slug = slug => i <= j
    ELSE 0

\* Faulty variant of InvalidSlugs: the loop stops at the first invalid slug.
InvalidSlugs_first(bks, log) ==
    LET all == {slug \in DOMAIN log : slug \notin valid_slugs(bks)}
    IN  IF all = {} THEN {} ELSE {CHOOSE slug \in all : TRUE}

\* invalid_slugs: the log's slugs that are not in valid_slugs.
InvalidSlugs(bks, log) == {slug \in DOMAIN log : slug \notin valid_slugs(bks)}

\* The years check skips an entry without (or with empty) movies, an entry whose
\* slug has no book, and a book without the "movies" key.
YearsChecked(bks, log, slug) ==
    /\ log[slug].has_movies
    /\ DOMAIN log[slug].movies # {}
    /\ book_entry(bks, slug) # 0
    /\ bks[book_entry(bks, slug)].has_movies

\* invalid_years = user_movie_years - valid_movie_years
InvalidYears(bks, log, slug) ==
    LET book == bks[book_entry(bks, slug)]
        valid_movie_years == {book.movies[i].year : i \in DOMAIN book.movies}
        user_movie_years == DOMAIN log[slug].movies
    IN  user_movie_years \ valid_movie_years

\* invalid_movies: one group per entry with invalid years.
InvalidMovies(bks, log) ==
    {[slug |-> slug, years |-> InvalidYears(bks, log, slug)] :
        slug \in {s \in DOMAIN log :
                    YearsChecked(bks, log, s) /\ InvalidYears(bks, log, s) # {}}}

\* The outcome of check: the invalid slugs are reported first and end the run.
CheckPrinted(bks, log) ==
    IF InvalidSlugs(bks, log) # {} THEN "invalid slugs"
    ELSE IF InvalidMovies(bks, log) # {} THEN "invalid movie years"
    ELSE "all valid"

Check ==
    /\ cmd' = "check"
    /\ invalid_slugs' = InvalidSlugs(books, personal)
    /\ invalid_movies' = InvalidMovies(books, personal)
    /\ printed' = CheckPrinted(books, personal)
    /\ exit_code' = IF CheckPrinted(books, personal) = "all valid" THEN 0 ELSE 1
    /\ log_loaded' = TRUE
    /\ changes_made' = 0
    /\ marked' = {}
    /\ written' = FALSE
    /\ rerun' = FALSE
    /\ stats' = NoStats
    /\ UNCHANGED <<books, personal, csv>>

\* ----------------------------------------------------------- update_movies

\* Lines 153-167: the rows' Const values as a set.  A row lacks "Const" exactly
\* when the header does (DictReader keys every row by the header), and the test
\* is made per row: it is never made for an export without data rows.
CsvFails(export) == ~export.has_const /\ Len(export.rows) > 0

watched_tt_keys(export) ==
    IF export.has_const THEN {export.rows[i] : i \in DOMAIN export.rows} ELSE {}

\* Lines 185-196: tt_to_book_movie, built by scanning every movie of every book
\* in order; a later movie with the same tt key overwrites the earlier one.
RECURSIVE ScanMovies(_, _, _)
ScanMovies(map, book, j) ==
    IF j > Len(book.movies) THEN map
    ELSE ScanMovies(SetKey(map, book.movies[j].imdb,
                           [slug |-> book.slug,
                            year |-> book.movies[j].year,
                            title |-> book.movies[j].title]),
                    book, j + 1)

RECURSIVE ScanBooks(_, _, _)
ScanBooks(map, bks, i) ==
    IF i > Len(bks) THEN map
    ELSE ScanBooks(IF bks[i].has_movies THEN ScanMovies(map, bks[i], 1) ELSE map,
                   bks, i + 1)

\* Faulty variant of tt_to_book_movie: a tt key seen again keeps the slug of the
\* book it was first seen in, and takes the year and title of the later movie.
tt_to_book_movie_mixed(bks) ==
    LET map == ScanBooks(<<>>, bks, 1)
        first(tt) == CHOOSE i \in DOMAIN bks :
                        /\ \E j \in DOMAIN bks[i].movies : bks[i].movies[j].imdb = tt
                        /\ \A k \in DOMAIN bks :
                              (\E j \in DOMAIN bks[k].movies : bks[k].movies[j].imdb = tt) => i <= k
    IN  [tt \in DOMAIN map |-> [map[tt] EXCEPT !.slug = bks[first(tt)].slug]]

tt_to_book_movie(bks) == ScanBooks(<<>>, bks, 1)

\* Lines 206-217: the matches, in the order the set watched_tt_keys is iterated.
\* map is tt_to_book_movie, order a sequence listing the set's elements.
Matches(map, order) ==
    SelectSeq([i \in DOMAIN order |->
                 IF order[i] \in DOMAIN map
                 THEN [tt |-> order[i], slug |-> map[order[i]].slug,
                       year |-> map[order[i]].year, title |-> map[order[i]].title]
                 ELSE [tt |-> order[i], slug |-> "", year |-> 0, title |-> ""]],
              LAMBDA m : m.tt \in DOMAIN map)

\* Faulty variant of InitEntry: the new entry is created as read.
InitEntry_read(log, slug) ==
    IF slug \notin DOMAIN log
    THEN SetKey(log, slug, [book |-> TRUE, has_movies |-> FALSE, movies |-> <<>>])
    ELSE log

\* Lines 229-230: read_watched[slug] = {"book": False} if the slug has no entry.
InitEntry(log, slug) ==
    IF slug \notin DOMAIN log
    THEN SetKey(log, slug, [book |-> FALSE, has_movies |-> FALSE, movies |-> <<>>])
    ELSE log

\* Faulty variant of InitMovies: the movies mapping is emptied on every match.
InitMovies_reset(log, slug) ==
    [log EXCEPT ![slug] = [book |-> log[slug].book, has_movies |-> TRUE, movies |-> <<>>]]

\* Lines 233-234: read_watched[slug]["movies"] = {} if the entry has no movies.
InitMovies(log, slug) ==
    IF ~log[slug].has_movies
    THEN [log EXCEPT ![slug] = [book |-> log[slug].book, has_movies |-> TRUE, movies |-> <<>>]]
    ELSE log

\* Faulty variant of NeedsMark: every match is marked and counted again.
NeedsMark_always(movies, year) == TRUE

\* Lines 237-240: the year is marked unless it is already set to True.
NeedsMark(movies, year) == year \notin DOMAIN movies \/ ~movies[year]

\* Lines 224-243: one turn of the loop over the matches.  acc is
\* [log, changes_made, marked].
MergeOne(acc, match) ==
    LET log == InitMovies(InitEntry(acc.log, match.slug), match.slug)
    IN  IF NeedsMark(log[match.slug].movies, match.year)
        THEN [log |-> [log EXCEPT ![match.slug].movies =
                                     SetKey(log[match.slug].movies, match.year, TRUE)],
              changes_made |-> acc.changes_made + 1,
              marked |-> acc.marked \cup {<<match.slug, match.year>>}]
        ELSE [log |-> log, changes_made |-> acc.changes_made, marked |-> acc.marked]

RECURSIVE MergeFrom(_, _, _)
MergeFrom(acc, matches, i) ==
    IF i > Len(matches) THEN acc
    ELSE MergeFrom(MergeOne(acc, matches[i]), matches, i + 1)

Merge(log, matches) ==
    MergeFrom([log |-> log, changes_made |-> 0, marked |-> {}], matches, 1)

\* Faulty variant of ShouldWrite: the file is written whenever there is a match.
ShouldWrite_on_matches(matches, changes) == Len(matches) > 0

\* Line 245: the personal YAML is written back only after a change.
ShouldWrite(matches, changes) == Len(matches) > 0 /\ changes > 0

\* Lines 221-252: the outcome message.
UpdatePrinted(matches, changes) ==
    IF Len(matches) = 0 THEN "no matches"
    ELSE IF changes > 0 THEN "updated"
    ELSE "already marked"

\* update_movies with the export, tt_to_book_movie and the iteration order of
\* watched_tt_keys.  yaml.dump writes the whole in-memory document: the file
\* holds the merged log.
UpdateMoviesWith(export, map, order) ==
    \E matches \in {Matches(map, order)} :
    \E merged \in {Merge(personal, matches)} :
    \E write \in {ShouldWrite(matches, merged.changes_made)} :
        /\ cmd' = "update_movies"
        /\ csv' = export
        /\ invalid_slugs' = {}
        /\ invalid_movies' = {}
        /\ stats' = NoStats
        /\ rerun' = (cmd = "update_movies" /\ csv = export /\ written)
        /\ UNCHANGED books
        /\ IF CsvFails(export)
           THEN /\ exit_code' = 1
                /\ printed' = "csv missing Const"
                /\ log_loaded' = FALSE
                /\ changes_made' = 0
                /\ marked' = {}
                /\ written' = FALSE
                /\ UNCHANGED personal
           ELSE /\ exit_code' = 0
                /\ printed' = UpdatePrinted(matches, merged.changes_made)
                /\ log_loaded' = TRUE
                /\ changes_made' = merged.changes_made
                /\ marked' = merged.marked
                /\ written' = write
                /\ personal' = IF write THEN merged.log ELSE personal

UpdateMovies ==
    \E map \in {tt_to_book_movie(books)} :
        \E export \in Exports :
            \E order \in Orderings(watched_tt_keys(export)) :
                UpdateMoviesWith(export, map, order)

\* -------------------------------------------------------------- statistics

\* books_lookup = {book["slug"]: book for ...}: the index of the last book with
\* that slug, 0 when books_lookup.get(slug) is None.
books_lookup(bks, slug) ==
    IF \E i \in DOMAIN bks : bks[i].slug = slug
    THEN CHOOSE i \in DOMAIN bks :
            /\ bks[i].slug = slug
            /\ \A j \in DOMAIN bks : bks[j].slug = slug => j <= i
    ELSE 0

\* watched_movies = sum(1 for watched in user_movies.values() if watched)
watched_movies(entry) == Cardinality({y \in DOMAIN entry.movies : entry.movies[y]})

\* available_adaptations = len(book_entry.get("movies", []))
available_adaptations(book) == Len(book.movies)

\* Faulty variant of Categorize: "all watched" tested with >= instead of ==.
Categorize_ge(book_read, available, watched) ==
    IF book_read /\ available > 0
    THEN IF watched >= available THEN "read_all_movies_watched"
         ELSE IF watched > 0 THEN "read_some_movies_watched"
         ELSE "read_no_movies_watched"
    ELSE IF book_read /\ available = 0 THEN "read_no_movies_watched"
    ELSE IF ~book_read /\ watched > 0 THEN "not_read_movies_watched"
    ELSE "neither"

\* Lines 349-361: the bucket of one entry.
Categorize(book_read, available, watched) ==
    IF book_read /\ available > 0
    THEN IF watched = available THEN "read_all_movies_watched"
         ELSE IF watched > 0 THEN "read_some_movies_watched"
         ELSE "read_no_movies_watched"
    ELSE IF book_read /\ available = 0 THEN "read_no_movies_watched"
    ELSE IF ~book_read /\ watched > 0 THEN "not_read_movies_watched"
    ELSE "neither"

\* Lines 328-361: one turn of the loop over the log's entries.
CountEntry(st, bks, slug, entry) ==
    IF books_lookup(bks, slug) = 0 THEN st
    ELSE LET watched == watched_movies(entry)
             available == available_adaptations(bks[books_lookup(bks, slug)])
             bucket == Categorize(entry.book, available, watched)
             read == IF entry.book THEN "books_read" ELSE "books_not_read"
             st1 == [st EXCEPT ![read] = @ + 1,
                               !.movies_watched_count = @ + watched]
         IN  [st1 EXCEPT ![bucket] = @ + 1]

RECURSIVE CountEntries(_, _, _, _)
CountEntries(st, bks, log, todo) ==
    IF todo = {} THEN st
    ELSE LET slug == CHOOSE s \in todo : TRUE
         IN  CountEntries(CountEntry(st, bks, slug, log[slug]), bks, log, todo \ {slug})

\* Faulty variant of untracked_books: the tracked slugs are not subtracted.
untracked_books_all(bks, log) == Cardinality(valid_slugs(bks))

\* Lines 363-366: untracked_books = len(all_slugs - tracked_slugs)
untracked_books(bks, log) == Cardinality(valid_slugs(bks) \ DOMAIN log)

\* Lines 304-368: the counters of the diagram.
Statistics(bks, log) ==
    LET st == CountEntries([NoStats EXCEPT !.total_books = Len(bks)], bks, log, DOMAIN log)
    IN  [st EXCEPT !.neither = @ + untracked_books(bks, log),
                   !.books_not_read = @ + untracked_books(bks, log)]

StatisticsCmd ==
    /\ cmd' = "statistics"
    /\ stats' = Statistics(books, personal)
    /\ exit_code' = 0
    /\ printed' = "statistics"
    /\ invalid_slugs' = {}
    /\ invalid_movies' = {}
    /\ log_loaded' = TRUE
    /\ changes_made' = 0
    /\ marked' = {}
    /\ written' = FALSE
    /\ rerun' = FALSE
    /\ UNCHANGED <<books, personal, csv>>

\* ------------------------------------------------------------ specification

\* The three commands are independent runs of the program; each is specified
\* over the documents it reads.
SpecCheck == InitCheck /\ [][Check]_vars

SpecUpdate == InitUpdate /\ [][UpdateMovies]_vars

SpecStatistics == InitStatistics /\ [][StatisticsCmd]_vars

\* ------------------------------------------------------------------ claims

\* The adaptation years the catalog declares for a slug: none when the slug has
\* no book or the book declares no adaptations.
AdaptationYears(slug) ==
    {books[i].movies[j].year : <<i, j>> \in
        {p \in (DOMAIN books) \X (1..Cardinality(Years)) :
            books[p[1]].slug = slug /\ p[2] \in DOMAIN books[p[1]].movies}}

\* C1 (as claimed): check succeeds if and only if every slug of the log exists
\* in the catalog and the watched years of every log entry are a subset of the
\* adaptation years of the matching catalog entry, a catalog entry that declares
\* no adaptations included.
C1_ValidateIff ==
    cmd = "check" =>
        (exit_code = 0 <=>
            \A slug \in DOMAIN personal :
                /\ slug \in {books[i].slug : i \in DOMAIN books}
                /\ DOMAIN personal[slug].movies \subseteq AdaptationYears(slug))

MatchedSlugs == {slug \in DOMAIN personal : \E i \in DOMAIN books : books[i].slug = slug}

UntrackedSlugs == {books[i].slug : i \in DOMAIN books} \ DOMAIN personal

\* The log without its entries that have no catalog entry.
MatchedLog == [slug \in MatchedSlugs |-> personal[slug]]

\* (read, available, watched) of a matched log entry.
ReadOf(slug) == personal[slug].book

AvailableOf(slug) == Cardinality(AdaptationYears(slug))

WatchedOf(slug) ==
    Cardinality({y \in DOMAIN personal[slug].movies : personal[slug].movies[y]})

BucketSum ==
    stats.read_all_movies_watched + stats.read_some_movies_watched
    + stats.read_no_movies_watched + stats.not_read_movies_watched + stats.neither

\* C4: the five buckets of statistics are a partition: with the untracked catalog
\* slugs added to "neither" the bucket counts sum to total_books, books_read +
\* books_not_read = total_books, every catalog-matched log entry is counted in
\* exactly one bucket, and a log entry with no catalog entry changes no counter.
C4_BucketsPartition ==
    cmd = "statistics" =>
        /\ stats.total_books = Len(books)
        /\ BucketSum = stats.total_books
        /\ stats.books_read + stats.books_not_read = stats.total_books
        /\ BucketSum - Cardinality(UntrackedSlugs) = Cardinality(MatchedSlugs)
        /\ stats.neither >= Cardinality(UntrackedSlugs)
        /\ stats.books_read = Cardinality({slug \in MatchedSlugs : ReadOf(slug)})
        /\ stats = Statistics(books, MatchedLog)

\* C4 witness: statistics has run on a log with a matched entry and an entry
\* without catalog entry, the catalog holding a slug the log does not track.
C4_MixedLog ==
    /\ cmd = "statistics"
    /\ MatchedSlugs # {}
    /\ DOMAIN personal \ MatchedSlugs # {}
    /\ UntrackedSlugs # {}

\* C8 (as claimed): every catalog-matched log entry is counted in the bucket the
\* five conditions give, "partially completed" being read and available > 0 and
\* 0 < watched < available, also for a log that holds more true years than the
\* catalog entry has adaptations.
C8_BucketsAsClaimed ==
    cmd = "statistics" =>
        /\ stats.read_all_movies_watched = Cardinality({slug \in MatchedSlugs :
                ReadOf(slug) /\ AvailableOf(slug) > 0 /\ WatchedOf(slug) = AvailableOf(slug)})
        /\ stats.read_some_movies_watched = Cardinality({slug \in MatchedSlugs :
                ReadOf(slug) /\ AvailableOf(slug) > 0 /\ 0 < WatchedOf(slug) /\ WatchedOf(slug) < AvailableOf(slug)})
        /\ stats.read_no_movies_watched = Cardinality({slug \in MatchedSlugs :
                ReadOf(slug) /\ (AvailableOf(slug) = 0 \/ WatchedOf(slug) = 0)})
        /\ stats.not_read_movies_watched = Cardinality({slug \in MatchedSlugs :
                ~ReadOf(slug) /\ WatchedOf(slug) > 0})
        /\ stats.neither = Cardinality({slug \in MatchedSlugs :
                ~ReadOf(slug) /\ WatchedOf(slug) = 0}) + Cardinality(UntrackedSlugs)

\* C8 (amended): as claimed, except that "partially completed" is read and
\* available > 0 and watched > 0 and watched # available: an entry with more true
\* years than the catalog entry has adaptations is counted as partially completed.
C8_BucketsOfTheCode ==
    cmd = "statistics" =>
        /\ stats.read_all_movies_watched = Cardinality({slug \in MatchedSlugs :
                ReadOf(slug) /\ AvailableOf(slug) > 0 /\ WatchedOf(slug) = AvailableOf(slug)})
        /\ stats.read_some_movies_watched = Cardinality({slug \in MatchedSlugs :
                ReadOf(slug) /\ AvailableOf(slug) > 0 /\ 0 < WatchedOf(slug) /\ WatchedOf(slug) # AvailableOf(slug)})
        /\ stats.read_no_movies_watched = Cardinality({slug \in MatchedSlugs :
                ReadOf(slug) /\ (AvailableOf(slug) = 0 \/ WatchedOf(slug) = 0)})
        /\ stats.not_read_movies_watched = Cardinality({slug \in MatchedSlugs :
                ~ReadOf(slug) /\ WatchedOf(slug) > 0})
        /\ stats.neither = Cardinality({slug \in MatchedSlugs :
                ~ReadOf(slug) /\ WatchedOf(slug) = 0}) + Cardinality(UntrackedSlugs)

\* C8 witness: statistics has run on a log with a read entry that holds more
\* true years than its catalog entry has adaptations.
C8_MoreWatchedThanAvailable ==
    /\ cmd = "statistics"
    /\ \E slug \in MatchedSlugs :
        ReadOf(slug) /\ AvailableOf(slug) > 0 /\ WatchedOf(slug) > AvailableOf(slug)
    /\ stats.read_some_movies_watched > 0

\* The places <<i, j>> of the catalog's adaptations, in scan order.
Places ==
    {p \in (DOMAIN books) \X (1..Cardinality(Years)) : p[2] \in DOMAIN books[p[1]].movies}

PlaceBefore(p, q) == p[1] < q[1] \/ (p[1] = q[1] /\ p[2] < q[2])

\* The adaptation an external identifier stands for: the last one, among places,
\* that carries it.
StandsFor(places, tt, p) ==
    /\ books[p[1]].movies[p[2]].imdb = tt
    /\ \A q \in places : books[q[1]].movies[q[2]].imdb = tt => ~PlaceBefore(p, q)

\* The (slug, year) pairs an export matches.
MatchedPairs(export) ==
    IF ~export.has_const THEN {}
    ELSE UNION {{<<books[p[1]].slug, books[p[1]].movies[p[2]].year>> :
                    p \in {q \in places : \E k \in DOMAIN export.rows :
                                            StandsFor(places, export.rows[k], q)}} :
                places \in {Places}}

\* The years of a slug among (slug, year) pairs.
YearsOf(pairs, slug) == {p[2] : p \in {q \in pairs : q[1] = slug}}

\* The watched flags that are true in a log.
TrueFlags(log) ==
    {p \in (DOMAIN log) \X Years : p[2] \in DOMAIN log[p[1]].movies /\ log[p[1]].movies[p[2]]}

\* C2: idempotence of update_movies: a run with the same export (and catalog) as
\* the run just before it makes zero changes and leaves the persisted log as
\* that run left it, whatever order the matches are taken in.
C2_Idempotent ==
    [][(cmd = "update_movies" /\ csv' = csv) =>
            /\ changes_made' = 0
            /\ marked' = {}
            /\ ~written'
            /\ personal' = personal]_vars

\* C2 witness: a second run with the same export, after a run that changed the
\* log, found every match already marked.
C2_SecondRun ==
    /\ rerun
    /\ cmd = "update_movies"
    /\ printed = "already marked"
    /\ changes_made = 0

\* C3: monotonicity of update_movies: no run removes a slug or a year from the
\* log, and a watched flag that is true before a run is true after it.
C3_Monotone ==
    [][\A slug \in DOMAIN personal :
            /\ slug \in DOMAIN personal'
            /\ \A year \in DOMAIN personal[slug].movies :
                /\ year \in DOMAIN personal'[slug].movies
                /\ personal[slug].movies[year] => personal'[slug].movies[year]]_vars

\* C3 witness: a run has rewritten a log that holds a true flag the run did not
\* set itself.
C3_KeptTrueFlag ==
    /\ cmd = "update_movies"
    /\ written
    /\ TrueFlags(personal) \ marked # {}

\* C5 (as claimed): an export whose header lacks "Const" makes update_movies fail
\* before the personal log is read or written, whatever the number of its rows.
C5_MissingConstAborts ==
    (cmd = "update_movies" /\ ~csv.has_const) =>
        /\ exit_code = 1
        /\ ~log_loaded
        /\ ~written

\* C7: update_movies rewrites the personal log if and only if it made a change;
\* without a change (no match, or every match already true) the file is left as
\* it was; the change count is the number of (slug, year) flags that went from
\* absent or false to true.
C7_WriteIffChanged ==
    [][cmd' = "update_movies" =>
            \E before \in {TrueFlags(personal)} :
            \E new \in {TrueFlags(personal') \ before} :
                /\ written' <=> changes_made' >= 1
                /\ ~written' => personal' = personal
                /\ changes_made' = Cardinality(new)
                /\ marked' = new
                /\ ~written' <=> MatchedPairs(csv') \subseteq before]_vars

\* C7 witness: a run found matches, every one already true, and wrote nothing.
C7_NothingToWrite ==
    /\ cmd = "update_movies"
    /\ MatchedPairs(csv) # {}
    /\ changes_made = 0
    /\ ~written

\* The catalog and the export of the scenario of C9.
DuneCatalog ==
    <<[slug |-> "dune", has_movies |-> TRUE,
       movies |-> <<[year |-> 1984, title |-> "Dune", imdb |-> "tt0087182"],
                    [year |-> 2021, title |-> "Dune", imdb |-> "tt1160419"]>>]>>

DuneExport == [has_const |-> TRUE, rows |-> <<"tt1160419">>]

DuneResult == [slug \in {"dune"} |->
                  [book |-> FALSE, has_movies |-> TRUE, movies |-> [y \in {2021} |-> TRUE]]]

\* C9: for every matched (slug, year): a slug without entry gets an entry with
\* book = false and its matched years true; an existing entry keeps its book
\* flag and the flags of its other years; the entries of slugs without match are
\* unchanged.  With the catalog of dune (1984, 2021), an empty log and an export
\* of tt1160419 alone the result is dune: {book: false, movies: {2021: true}} and
\* 1 change.
C9_MergeFrame ==
    [][\E pairs \in {MatchedPairs(csv')} :
       /\ DOMAIN personal' = DOMAIN personal \cup {p[1] : p \in pairs}
       /\ \A slug \in DOMAIN personal' :
            \E years \in {YearsOf(pairs, slug)} :
                IF years = {} THEN personal'[slug] = personal[slug]
                ELSE IF slug \notin DOMAIN personal
                THEN personal'[slug] = [book |-> FALSE, has_movies |-> TRUE,
                                        movies |-> [y \in years |-> TRUE]]
                ELSE /\ personal'[slug].book = personal[slug].book
                     /\ DOMAIN personal'[slug].movies = DOMAIN personal[slug].movies \cup years
                     /\ \A y \in DOMAIN personal'[slug].movies :
                            personal'[slug].movies[y] =
                                IF y \in years THEN TRUE ELSE personal[slug].movies[y]
       /\ (books = DuneCatalog /\ personal = <<>> /\ csv' = DuneExport) =>
            (personal' = DuneResult /\ changes_made' = 1)]_vars

\* C9 witness: the scenario's run has created the entry of dune.
C9_DuneCreated ==
    /\ cmd = "update_movies"
    /\ books = DuneCatalog
    /\ csv = DuneExport
    /\ personal = DuneResult
    /\ changes_made = 1
    /\ marked = {<<"dune", 2021>>}

\* C10: update_movies preserves validity: when check succeeds on the log before
\* a run it succeeds on the log after it, and every (slug, year) a run marks is
\* an adaptation of the catalog, also when an external identifier is carried by
\* several adaptations.
C10_ValidStaysValid ==
    [][/\ (personal' # personal /\ CheckPrinted(books, personal) = "all valid") =>
            CheckPrinted(books, personal') = "all valid"
       /\ \A pair \in marked' : pair[2] \in AdaptationYears(pair[1])]_vars

\* C10 witness: a run has marked a year through an external identifier that two
\* books carry, and check succeeds on the log it wrote.
C10_SharedIdentifier ==
    /\ cmd = "update_movies"
    /\ written
    /\ CheckPrinted(books, personal) = "all valid"
    /\ \E k \in DOMAIN csv.rows : \E p, q \in Places :
        /\ p[1] # q[1]
        /\ books[p[1]].movies[p[2]].imdb = csv.rows[k]
        /\ books[q[1]].movies[q[2]].imdb = csv.rows[k]
        /\ books[p[1]].movies[p[2]].year # books[q[1]].movies[q[2]].year
        /\ <<books[q[1]].slug, books[q[1]].movies[q[2]].year>> \in marked

====
